---- MODULE Spec2Model ----
(***************************************************************************)
(* Stage 2 of TP_BI (src/Etape2/selection.py): the batch that reads the    *)
(* scraped Shopify and WooCommerce tables, merges and cleans them, scores  *)
(* every product and derives three ranked views which it writes to the     *)
(* analysis database.                                                      *)
(*                                                                         *)
(* A DataFrame is a sequence of rows (records); the field idx of a row is  *)
(* its index label.  A float is an exact rational <<num, den>> in lowest   *)
(* terms with den > 0; NaN is <<0, 0>>.  None / SQL NULL is the string     *)
(* None.                                                                   *)
(***************************************************************************)
EXTENDS Integers, Sequences, FiniteSets, TLC

\* ------------------------------------------------------------------ bounds
\* Largest number of rows the two source tables hold together.
MaxRows == 3

\* --------------------------------------------------------------- constants
None == "<None>"
NaN == <<0, 0>>

\* selection.py:18-22
TOP_K_OVERALL == 20
FLAGSHIP_PER_STORE == 3
WEIGHT_AVAILABILITY == <<3, 5>>
WEIGHT_PRICE == <<2, 5>>

\* ----------------------------------------------------------- float values
RECURSIVE GCD(_, _)
GCD(a, b) == IF b = 0 THEN a ELSE GCD(b, a % b)

\* The float n/d (n >= 0, d > 0).
Rat(n, d) == LET g == GCD(n, d) IN <<n \div g, d \div g>>

\* pd.isna of a value of a numeric column, and of a value of a text column.
isnan(x) == x = NaN
isnone(x) == x = None

RAdd(x, y) == IF isnan(x) \/ isnan(y) THEN NaN
              ELSE Rat(x[1] * y[2] + y[1] * x[2], x[2] * y[2])
\* x - y for x >= y.
RSub(x, y) == IF isnan(x) \/ isnan(y) THEN NaN
              ELSE Rat(x[1] * y[2] - y[1] * x[2], x[2] * y[2])
RMul(x, y) == IF isnan(x) \/ isnan(y) THEN NaN
              ELSE Rat(x[1] * y[1], x[2] * y[2])
\* x / y for y > 0.
RDiv(x, y) == IF isnan(x) \/ isnan(y) THEN NaN
              ELSE Rat(x[1] * y[2], x[2] * y[1])
RLe(x, y) == x[1] * y[2] <= y[1] * x[2]
RLt(x, y) == x[1] * y[2] < y[1] * x[2]

\* ------------------------------------------------------------------- text
\* The characters of the texts the source tables hold.
Chars(s) ==
    CASE s = "$20.00"      -> <<"$", "2", "0", ".", "0", "0">>
      [] s = "N/A"         -> <<"N", "/", "A">>
      [] s = "<p>d </p>"   -> <<"<", "p", ">", "d", " ", "<", "/", "p", ">">>
      [] s = ""            -> <<>>

\* The text of the character sequences clean_html yields.
Str(cs) == CASE cs = <<>> -> "" [] cs = <<"d">> -> "d"

Digits == <<"0", "1", "2", "3", "4", "5", "6", "7", "8", "9">>
IsDigit(c) == \E i \in 1..10 : Digits[i] = c
DigitVal(c) == (CHOOSE i \in 1..10 : Digits[i] = c) - 1

RECURSIVE Pow10(_)
Pow10(n) == IF n = 0 THEN 1 ELSE 10 * Pow10(n - 1)

\* The number a string of digits denotes (0 for the empty string).
RECURSIVE DigitsVal(_)
DigitsVal(cs) == IF cs = <<>> THEN 0
                 ELSE 10 * DigitsVal(SubSeq(cs, 1, Len(cs) - 1)) + DigitVal(cs[Len(cs)])

\* re.sub(r'[^\d\.]', '', s)
StripNonNumeric(cs) == SelectSeq(cs, LAMBDA c : IsDigit(c) \/ c = ".")

\* float(cs) for cs of digits and dots: NaN stands for the ValueError.
ParseFloat(cs) ==
    LET dots == {i \in 1..Len(cs) : cs[i] = "."}
    IN  IF Cardinality(dots) > 1 \/ Len(cs) = Cardinality(dots) THEN NaN
        ELSE IF dots = {} THEN Rat(DigitsVal(cs), 1)
        ELSE LET p == CHOOSE i \in dots : TRUE
                 frac == SubSeq(cs, p + 1, Len(cs))
             IN  Rat(DigitsVal(SubSeq(cs, 1, p - 1)) * Pow10(Len(frac)) + DigitsVal(frac),
                     Pow10(Len(frac)))

\* A value of the raw price column: a float (read_sql turns the DECIMAL of
\* `products` into one), a str (the VARCHAR of `barefoot_products`) or None.
PyFloat(x) == [kind |-> "float", val |-> x]
PyStr(s) == [kind |-> "str", val |-> s]
PyNone == [kind |-> "none", val |-> None]

\* clean_and_convert_price, selection.py:92-98
clean_and_convert_price(price_val) ==
    IF price_val.kind = "none" THEN NaN
    ELSE IF price_val.kind = "float" THEN price_val.val
    ELSE LET cleaned_price == StripNonNumeric(Chars(price_val.val))
         IN  IF cleaned_price = <<>> THEN NaN ELSE ParseFloat(cleaned_price)

\* re.sub('<.*?>', '', cs): every "<" up to the next ">" goes, an unclosed "<" stays.
RECURSIVE StripTags(_)
StripTags(cs) ==
    IF cs = <<>> THEN <<>>
    ELSE IF cs[1] = "<" /\ \E j \in 2..Len(cs) : cs[j] = ">"
         THEN LET j == CHOOSE k \in 2..Len(cs) :
                          cs[k] = ">" /\ \A m \in 2..(k - 1) : cs[m] # ">"
              IN  StripTags(SubSeq(cs, j + 1, Len(cs)))
         ELSE <<cs[1]>> \o StripTags(Tail(cs))

\* str.strip()
RECURSIVE Strip(_)
Strip(cs) == IF cs # <<>> /\ cs[1] = " " THEN Strip(Tail(cs))
             ELSE IF cs # <<>> /\ cs[Len(cs)] = " " THEN Strip(SubSeq(cs, 1, Len(cs) - 1))
             ELSE cs

\* clean_html, selection.py:84-86
clean_html(raw_html) ==
    IF isnone(raw_html) THEN "" ELSE Str(Strip(StripTags(Chars(raw_html))))

\* ------------------------------------------------------------- DataFrames
\* The rows of df at the positions in S, in order.
Pick(df, S) ==
    LET F[i \in 0..Len(df)] ==
            IF i = 0 THEN <<>>
            ELSE IF i \in S THEN Append(F[i - 1], df[i]) ELSE F[i - 1]
    IN  F[Len(df)]

\* Rows numbered 0, 1, ... (a RangeIndex; concat's ignore_index=True).
RangeIndex(df) == [i \in 1..Len(df) |-> [df[i] EXCEPT !.idx = i - 1]]

expected_cols == {"product_url", "title", "vendor", "price", "availability",
                  "description", "product_category", "source_store_name",
                  "source_platform", "product_tags", "sku"}

\* Whether every expected column of the row is null.
AllNull(r) == /\ r.price.kind = "none"
              /\ \A c \in expected_cols \ {"price"} : isnone(r[c])

\* DataFrame.dropna(how='all')
dropna_all(df) == Pick(df, {i \in 1..Len(df) : ~AllNull(df[i])})

\* drop_duplicates with keep='last'.
drop_duplicates_keep_last(df, col) ==
    Pick(df, {i \in 1..Len(df) : \A j \in (i + 1)..Len(df) : df[j][col] # df[i][col]})

\* DataFrame.drop_duplicates(subset=[col], keep='first')
drop_duplicates(df, col) ==
    Pick(df, {i \in 1..Len(df) : \A j \in 1..(i - 1) : df[j][col] # df[i][col]})

\* Series.fillna('N/A') of one value.
fillna_NA(x) == IF isnone(x) THEN "N/A" ELSE x

\* ---------------------------------------------------------- source tables
ShopifyUrls == <<"s1", "s2", "s3", "s4", "s5", "s6">>
WooUrls == <<"w1", "w2", "w3", "w4", "w5", "w6">>

\* Scrapping_Shop.py:134 writes one of these two.
ShopifyAvailability == {"Available", "Out of Stock"}
ShopifyPrices == {Rat(10, 1), Rat(30, 1)}
ShopifyStores == {"Store A", "Barefoot Buttons"}
WooPrices == {"$20.00", "N/A"}

\* A row of `products`: the i-th row holds the i-th url (product_url is UNIQUE).
ShopifyRows(i) ==
    [product_url : {ShopifyUrls[i]}, title : {"T"}, vendor : {"V"},
     price : {PyFloat(x) : x \in ShopifyPrices},
     availability : ShopifyAvailability, description : {"<p>d </p>"},
     category : {"C"}, store_name : ShopifyStores]

\* A row of `barefoot_products`: its url is its own or one `products` holds too.
WooRows(j, shared) ==
    [product_url : {WooUrls[j]} \cup shared,
     title : {"T"}, price : {PyStr(x) : x \in WooPrices},
     tag : {"tag"}, sku : {"sku"}, category : {"C"}]

\* The rows with pairwise distinct product_url (the column is UNIQUE).
UniqueUrls(t) == \A i, j \in 1..Len(t) : i # j => t[i].product_url # t[j].product_url

\* The tables `products` may hold: at most MaxRows rows, the i-th one of
\* ShopifyRows(i).
ShopifyTables ==
    UNION {{t \in [1..n -> UNION {ShopifyRows(i) : i \in 1..n}] :
              (\A i \in 1..n : t[i] \in ShopifyRows(i)) /\ UniqueUrls(t)}
           : n \in 0..MaxRows}

\* The tables `barefoot_products` may hold beside the table shopify: the two
\* hold at most MaxRows rows together.
WooTables(shopify) ==
    LET shared == {shopify[i].product_url : i \in 1..Len(shopify)}
    IN  UNION {{t \in [1..n -> UNION {WooRows(j, shared) : j \in 1..n}] :
                  (\A j \in 1..n : t[j] \in WooRows(j, shared)) /\ UniqueUrls(t)}
               : n \in 0..(MaxRows - Len(shopify))}

\* The tunables of one run: those of selection.py:18-21, and a smaller K and N
\* with equal weights.
Tunables ==
    {[k |-> TOP_K_OVERALL, n |-> FLAGSHIP_PER_STORE,
      w_availability |-> WEIGHT_AVAILABILITY, w_price |-> WEIGHT_PRICE],
     [k |-> 2, n |-> 2, w_availability |-> Rat(1, 2), w_price |-> Rat(1, 2)]}

\* The order in which the default sort (kind='quicksort', not stable) leaves rows
\* of equal key: as they came, or reversed.
TieOrders == {"first", "last"}

\* ---------------------------------------------------------------- readers
\* fetch_shopify_data, selection.py:53-65, for an open connection.
fetch_shopify_data(tbl) ==
    LET rows == SelectSeq(tbl, LAMBDA r : r.price.kind # "none" /\ ~isnone(r.title))
    IN  [i \in 1..Len(rows) |->
            [idx |-> i - 1, product_url |-> rows[i].product_url, title |-> rows[i].title,
             vendor |-> rows[i].vendor, price |-> rows[i].price,
             availability |-> rows[i].availability, description |-> rows[i].description,
             product_category |-> rows[i].category,
             source_store_name |-> rows[i].store_name,
             source_platform |-> "Shopify", product_tags |-> None, sku |-> None]]

\* fetch_woocommerce_data, selection.py:67-81, for an open connection.
fetch_woocommerce_data(tbl) ==
    LET rows == SelectSeq(tbl, LAMBDA r : r.price.kind # "none" /\ ~isnone(r.title))
    IN  [i \in 1..Len(rows) |->
            [idx |-> i - 1, product_url |-> rows[i].product_url, title |-> rows[i].title,
             vendor |-> "Barefoot Buttons", price |-> rows[i].price,
             availability |-> "Available", description |-> None,
             product_category |-> rows[i].category,
             source_store_name |-> "Barefoot Buttons",
             source_platform |-> "WooCommerce", product_tags |-> rows[i].tag,
             sku |-> rows[i].sku]]

\* -------------------------------------------------------------- normalizer
\* Both frames or none: one empty source empties the list.
df_s_list_of_all_or_none(shopify_raw, woocommerce_raw) ==
    IF shopify_raw = <<>> \/ woocommerce_raw = <<>> THEN <<>>
    ELSE <<shopify_raw, woocommerce_raw>>

\* __main__, selection.py:375-386: the frames that are not empty, Shopify first.
df_s_list_of(shopify_raw, woocommerce_raw) ==
    (IF shopify_raw # <<>> THEN <<shopify_raw>> ELSE <<>>)
        \o (IF woocommerce_raw # <<>> THEN <<woocommerce_raw>> ELSE <<>>)

\* pd.concat(frames, ignore_index=True)
RECURSIVE concat(_)
concat(frames) == IF frames = <<>> THEN <<>> ELSE Head(frames) \o concat(Tail(frames))

\* __main__, selection.py:391-394
combine(df_s_list) ==
    drop_duplicates(dropna_all(RangeIndex(concat(df_s_list))), "product_url")

\* str.lower() of an availability text.
Lower(x) == IF x = "Available" THEN "available"
            ELSE IF x = "Out of Stock" THEN "out of stock" ELSE x

\* Preprocessing without the dropna on price: unparsed prices stay as NaN.
preprocess_combined_data_keep_unpriced(df) ==
    IF df = <<>> THEN df
    ELSE LET kept == [i \in 1..Len(df) |->
                        [df[i] EXCEPT !.price = clean_and_convert_price(@)]]
         IN  [i \in 1..Len(kept) |->
                [is_available_numeric |->
                     IF ~isnone(kept[i].availability)
                        /\ Lower(kept[i].availability) = "available" THEN 1 ELSE 0,
                 description_text |-> clean_html(kept[i].description)]
                @@ [kept[i] EXCEPT !.title = fillna_NA(@), !.vendor = fillna_NA(@),
                                   !.product_category = fillna_NA(@),
                                   !.source_store_name = fillna_NA(@),
                                   !.product_tags = fillna_NA(@), !.sku = fillna_NA(@)]]

\* preprocess_combined_data, selection.py:88-115
preprocess_combined_data(df) ==
    IF df = <<>> THEN df
    ELSE LET priced == [i \in 1..Len(df) |->
                          [df[i] EXCEPT !.price = clean_and_convert_price(@)]]
             kept == Pick(priced, {i \in 1..Len(priced) : ~isnan(priced[i].price)})
         IN  [i \in 1..Len(kept) |->
                [is_available_numeric |->
                     IF ~isnone(kept[i].availability)
                        /\ Lower(kept[i].availability) = "available" THEN 1 ELSE 0,
                 description_text |-> clean_html(kept[i].description)]
                @@ [kept[i] EXCEPT !.title = fillna_NA(@), !.vendor = fillna_NA(@),
                                   !.product_category = fillna_NA(@),
                                   !.source_store_name = fillna_NA(@),
                                   !.product_tags = fillna_NA(@), !.sku = fillna_NA(@)]]

\* ------------------------------------------------------------------ scorer
RMin(S) == CHOOSE x \in S : \A y \in S : RLe(x, y)
RMax(S) == CHOOSE x \in S : \A y \in S : RLe(y, x)

\* price_score without the branch for a batch of one price: the column stays 0.0.
price_score_of_no_constant(df) ==
    LET prices == {df[i].price : i \in 1..Len(df)} \ {NaN}
    IN  [i \in 1..Len(df) |->
            IF Cardinality(prices) > 1
            THEN RDiv(RSub(RMax(prices), df[i].price), RSub(RMax(prices), RMin(prices)))
            ELSE Rat(0, 1)]

\* price_score not inverted: (price - min) / (max - min).
price_score_of_not_inverted(df) ==
    LET prices == {df[i].price : i \in 1..Len(df)} \ {NaN}
    IN  [i \in 1..Len(df) |->
            IF Cardinality(prices) > 1
            THEN RDiv(RSub(df[i].price, RMin(prices)), RSub(RMax(prices), RMin(prices)))
            ELSE Rat(1, 2)]

\* The price_score column, selection.py:125-133.
price_score_of(df) ==
    LET prices == {df[i].price : i \in 1..Len(df)} \ {NaN}
        price_min == RMin(prices)
        price_max == RMax(prices)
        raw(p) == IF Cardinality(prices) > 1
                  THEN IF price_max = price_min THEN Rat(1, 2)
                       ELSE RDiv(RSub(price_max, p), RSub(price_max, price_min))
                  ELSE IF Len(df) > 0 /\ prices # {} THEN Rat(1, 2)
                  ELSE Rat(0, 1)
    IN  [i \in 1..Len(df) |->
            LET x == raw(df[i].price) IN IF isnan(x) THEN Rat(0, 1) ELSE x]

\* final_score with the two weights exchanged.
final_score_of_swapped(availability_score, price_score, w_availability, w_price) ==
    RAdd(RMul(Rat(availability_score, 1), w_price), RMul(price_score, w_availability))

\* final_score of one row, selection.py:134
final_score_of(availability_score, price_score, w_availability, w_price) ==
    RAdd(RMul(Rat(availability_score, 1), w_availability), RMul(price_score, w_price))

\* Scoring that normalises in place: the price column is left holding price_score.
calculate_attractiveness_score_in_place(df, w_availability, w_price) ==
    IF df = <<>> THEN df
    ELSE LET ps == price_score_of(df)
         IN  [i \in 1..Len(df) |->
                [availability_score |-> df[i].is_available_numeric,
                 price_score |-> ps[i],
                 final_score |-> final_score_of(df[i].is_available_numeric, ps[i],
                                                w_availability, w_price),
                 price |-> ps[i]]
                @@ df[i]]

\* calculate_attractiveness_score, selection.py:117-136 (the frame always holds
\* the columns is_available_numeric and price)
calculate_attractiveness_score(df, w_availability, w_price) ==
    IF df = <<>> THEN df
    ELSE LET ps == price_score_of(df)
         IN  [i \in 1..Len(df) |->
                [availability_score |-> df[i].is_available_numeric,
                 price_score |-> ps[i],
                 final_score |-> final_score_of(df[i].is_available_numeric, ps[i],
                                                w_availability, w_price)]
                @@ df[i]]

\* ----------------------------------------------------------- rank derivers
Min2(a, b) == IF a < b THEN a ELSE b

\* DataFrame.head(k)
head(df, k) == SubSeq(df, 1, Min2(k, Len(df)))

\* One step of a descending sort: r goes behind the rows that stay before it.
InsertDesc(sorted, r, by, ties) ==
    LET before == {i \in 1..Len(sorted) :
                      IF ties = "first" THEN RLe(r[by], sorted[i][by])
                      ELSE RLt(r[by], sorted[i][by])}
        pos == Cardinality(before)
    IN  SubSeq(sorted, 1, pos) \o <<r>> \o SubSeq(sorted, pos + 1, Len(sorted))

\* sort_values(by=by, ascending=False, kind=...): descending; rows of equal key
\* stay in their order under "first" (a stable sort) and are reversed under "last".
sort_values_desc(df, by, ties) ==
    LET F[i \in 0..Len(df)] ==
            IF i = 0 THEN <<>> ELSE InsertDesc(F[i - 1], df[i], by, ties)
    IN  F[Len(df)]

\* Top-K taken from an ascending sort.
display_top_k_products_ascending(df, k, ties) ==
    IF df = <<>> THEN <<>>
    ELSE LET desc == sort_values_desc(df, "final_score", ties)
         IN  head([i \in 1..Len(desc) |-> desc[Len(desc) + 1 - i]], k)

\* display_top_k_products, selection.py:333-338: the sort is the default one.
display_top_k_products(df, k, ties) ==
    IF df = <<>> THEN <<>> ELSE head(sort_values_desc(df, "final_score", ties), k)

\* Python's order of the store names that occur.
StoreOrder == <<"Barefoot Buttons", "N/A", "Store A">>

\* The keys of groupby(col), sorted.
group_keys(df, col) ==
    LET present == {i \in 1..Len(StoreOrder) :
                       \E j \in 1..Len(df) : df[j][col] = StoreOrder[i]}
    IN  Pick(StoreOrder, present)

\* The rows of one group, in the frame's order.
group_of(df, col, key) == SelectSeq(df, LAMBDA r : r[col] = key)

\* The first n rows of a group as they come, not the n largest.
nlargest_unsorted(rows, n, ties) == IF n <= 0 THEN <<>> ELSE head(rows, n)

\* Series.nlargest(n) (keep='first') over the rows of a group: with n >= len it
\* is sort_values(ascending=False).head(n), else the first n of a stable order.
nlargest(rows, n, ties) ==
    IF n <= 0 THEN <<>>
    ELSE IF n >= Len(rows) THEN head(sort_values_desc(rows, "final_score", ties), n)
    ELSE head(sort_values_desc(rows, "final_score", "first"), n)

\* df.loc[labels]
loc(df, labels) ==
    [i \in 1..Len(labels) |-> CHOOSE r \in {df[j] : j \in 1..Len(df)} : r.idx = labels[i]]

\* display_flagship_products_per_store, selection.py:340-346
display_flagship_products_per_store(df, n_flagship, ties) ==
    IF df = <<>> THEN <<>>
    ELSE LET keys == group_keys(df, "source_store_name")
             labels(key) ==
                 LET top == nlargest(group_of(df, "source_store_name", key), n_flagship, ties)
                 IN  [i \in 1..Len(top) |-> top[i].idx]
         IN  loc(df, concat([g \in 1..Len(keys) |-> labels(keys[g])]))

RECURSIVE RSum(_)
RSum(xs) == IF xs = <<>> THEN Rat(0, 1) ELSE RAdd(Head(xs), RSum(Tail(xs)))

\* The sum of the final_score of a group, not divided by its size.
mean_as_sum(rows) == RSum([i \in 1..Len(rows) |-> rows[i].final_score])

\* Series.mean() and Series.max() of the final_score of a group.
mean(rows) == RDiv(RSum([i \in 1..Len(rows) |-> rows[i].final_score]), Rat(Len(rows), 1))
max(rows) == RMax({rows[i].final_score : i \in 1..Len(rows)})

\* groupby('source_store_name')['final_score'].agg().sort_values(ascending=False):
\* a Series as a sequence of [source_store_name, value].
grouped_sorted(df, agg, ties) ==
    LET keys == group_keys(df, "source_store_name")
        value(rows) == IF agg = "mean" THEN mean(rows) ELSE max(rows)
    IN  sort_values_desc(
            [g \in 1..Len(keys) |->
                [source_store_name |-> keys[g],
                 value |-> value(group_of(df, "source_store_name", keys[g]))]],
            "value", ties)

\* display_store_rankings, selection.py:348-355: <<avg_store_scores, max_store_scores>>
display_store_rankings(df, ties) ==
    IF df = <<>> THEN <<<<>>, <<>>>>
    ELSE <<grouped_sorted(df, "mean", ties), grouped_sorted(df, "max", ties)>>

\* The platform map taken from the last row of each store.
platform_map_df_of_last(df) ==
    IF df = <<>> THEN <<>>
    ELSE LET lasts == drop_duplicates_keep_last(df, "source_store_name")
         IN  [i \in 1..Len(lasts) |->
                [source_store_name |-> lasts[i].source_store_name,
                 source_platform |-> lasts[i].source_platform]]

\* __main__, selection.py:411-413
platform_map_df_of(df) ==
    IF df = <<>> THEN <<>>
    ELSE LET firsts == drop_duplicates(df, "source_store_name")
         IN  [i \in 1..Len(firsts) |->
                [source_store_name |-> firsts[i].source_store_name,
                 source_platform |-> firsts[i].source_platform]]

\* ------------------------------------------------------------ sink writers
DB_BATCH_SIZE == 500

\* A scored_products row as an earlier run left it.
EarlierScored(url, store, platform, tags) ==
    [product_url |-> url, title |-> "T", source_store_name |-> store,
     price |-> Rat(10, 1), is_available_numeric |-> 1,
     description_text |-> IF platform = "Shopify" THEN "d" ELSE "",
     product_category |-> "C", product_tags |-> tags, sku |-> tags,
     source_platform |-> platform, availability_score |-> 1,
     price_score |-> Rat(1, 2), final_score |-> Rat(4, 5)]

\* A row of a view table as an earlier run left it.
EarlierView(url, store, platform) ==
    [product_url |-> url, title |-> "T", source_store_name |-> store,
     final_score |-> Rat(4, 5), source_platform |-> platform]

\* The analysis database before the run (create_analysis_tables,
\* selection.py:139-179), as two earlier runs left it: one over the product
\* "s1", and the latest over the products "u0" of "Old Store" and "w1", both
\* available at the same price.  scored_products keeps all three, the three
\* views hold the latest run's.
EarlierDb ==
    [scored_products |->
        {EarlierScored("u0", "Old Store", "Shopify", "N/A"),
         EarlierScored("s1", "Old Store", "Shopify", "N/A"),
         EarlierScored("w1", "Barefoot Buttons", "WooCommerce", "tag")},
     top_k_products_overall |->
        {[rank_overall |-> 1] @@ EarlierView("u0", "Old Store", "Shopify"),
         [rank_overall |-> 2] @@ EarlierView("w1", "Barefoot Buttons", "WooCommerce")},
     flagship_products_by_store |->
        {[store_rank |-> 1] @@ EarlierView("u0", "Old Store", "Shopify"),
         [store_rank |-> 1] @@ EarlierView("w1", "Barefoot Buttons", "WooCommerce")},
     store_rankings |->
        {[source_store_name |-> "Old Store", avg_product_score |-> Rat(4, 5),
          max_product_score |-> Rat(4, 5), source_platform |-> "Shopify"],
         [source_store_name |-> "Barefoot Buttons", avg_product_score |-> Rat(4, 5),
          max_product_score |-> Rat(4, 5), source_platform |-> "WooCommerce"]}]

\* df_to_save, selection.py:185-206: the thirteen columns; a NaN of a numeric
\* column goes as NULL (NaN here), a null text as 'N/A'.
df_to_save(df) ==
    [i \in 1..Len(df) |->
        [product_url |-> fillna_NA(df[i].product_url), title |-> fillna_NA(df[i].title),
         source_store_name |-> fillna_NA(df[i].source_store_name),
         price |-> df[i].price, is_available_numeric |-> df[i].is_available_numeric,
         description_text |-> fillna_NA(df[i].description_text),
         product_category |-> fillna_NA(df[i].product_category),
         product_tags |-> fillna_NA(df[i].product_tags), sku |-> fillna_NA(df[i].sku),
         source_platform |-> fillna_NA(df[i].source_platform),
         availability_score |-> df[i].availability_score,
         price_score |-> df[i].price_score, final_score |-> df[i].final_score]]

\* The row inserted with no unique key on product_url to stop a second row.
upsert_no_key(table, row) == table \cup {row}

\* ON DUPLICATE KEY UPDATE adding the new final_score to the stored one.
upsert_accumulating(table, row) ==
    LET old == {t \in table : t.product_url = row.product_url}
    IN  (table \ old)
        \cup {IF old = {} THEN row
              ELSE [row EXCEPT !.final_score =
                                   RAdd((CHOOSE t \in old : TRUE).final_score, @)]}

\* INSERT ... ON DUPLICATE KEY UPDATE of one row (the key is product_url).
upsert(table, row) == {t \in table : t.product_url # row.product_url} \cup {row}

\* cursor.executemany(sql, batch_tuples); commit
RECURSIVE upsert_batch(_, _)
upsert_batch(table, batch_tuples) ==
    IF batch_tuples = <<>> THEN table
    ELSE upsert_batch(upsert(table, Head(batch_tuples)), Tail(batch_tuples))

\* The batch that holds the row at position p (from 1) of all_data_tuples.
batch_of(p, batch_size) == ((p - 1) \div batch_size) + 1

\* The number of batches range(0, len, batch_size) yields.
batch_count(len, batch_size) == (len + batch_size - 1) \div batch_size

\* The loop of selection.py:225-246 from batch number i on: a batch whose
\* executemany or commit raises leaves the table as it was (the statement is
\* undone, the transaction rolled back) and the loop goes on; every other batch
\* is committed.
RECURSIVE save_batches(_, _, _, _, _)
save_batches(table, all_data_tuples, batch_size, failing, i) ==
    IF all_data_tuples = <<>> THEN table
    ELSE save_batches(IF i \in failing THEN table
                      ELSE upsert_batch(table, head(all_data_tuples, batch_size)),
                      SubSeq(all_data_tuples, Min2(batch_size, Len(all_data_tuples)) + 1,
                             Len(all_data_tuples)),
                      batch_size, failing, i + 1)

\* The loop stopping at the first batch that fails.
save_scored_products_to_db_abort(df, table, batch_size, failing) ==
    IF df = <<>> THEN table
    ELSE LET first == IF failing = {} THEN Len(df) + 1
                      ELSE CHOOSE i \in failing : \A j \in failing : i <= j
         IN  save_batches(table, head(df_to_save(df), (first - 1) * batch_size),
                          batch_size, {}, 1)

\* The whole frame written in one transaction: one failing batch undoes all.
save_scored_products_to_db_one_txn(df, table, batch_size, failing) ==
    IF df = <<>> \/ failing # {} THEN table
    ELSE save_batches(table, df_to_save(df), batch_size, {}, 1)

\* save_scored_products_to_db, selection.py:181-248: the table afterwards, the
\* batches numbered in failing raising a database error.
save_scored_products_to_db(df, table, batch_size, failing) ==
    IF df = <<>> THEN table
    ELSE save_batches(table, df_to_save(df), batch_size, failing, 1)

\* Top-K inserted without the DELETE before it.
save_top_k_to_db_no_delete(top_k, table) ==
    IF top_k = <<>> THEN table
    ELSE table \cup
         {[rank_overall |-> i, product_url |-> top_k[i].product_url,
           title |-> top_k[i].title, source_store_name |-> top_k[i].source_store_name,
           final_score |-> top_k[i].final_score,
           source_platform |-> top_k[i].source_platform] : i \in 1..Len(top_k)}

\* save_top_k_to_db, selection.py:250-265: the table afterwards.
save_top_k_to_db(top_k, table) ==
    IF top_k = <<>> THEN table
    ELSE {[rank_overall |-> i, product_url |-> top_k[i].product_url,
           title |-> top_k[i].title, source_store_name |-> top_k[i].source_store_name,
           final_score |-> top_k[i].final_score,
           source_platform |-> top_k[i].source_platform] : i \in 1..Len(top_k)}

\* The rows numbered from 1 across the whole frame, not within each store.
ranked_flagship_df_global(flagship_df) ==
    LET keys == group_keys(flagship_df, "source_store_name")
        all == concat([g \in 1..Len(keys) |->
                          group_of(flagship_df, "source_store_name", keys[g])])
    IN  [i \in 1..Len(all) |-> [store_rank |-> i] @@ all[i]]

\* selection.py:277-288: every store's rows numbered from 1, in the frame's order.
ranked_flagship_df_of(flagship_df) ==
    LET keys == group_keys(flagship_df, "source_store_name")
        ranked(key) ==
            LET group == group_of(flagship_df, "source_store_name", key)
            IN  [i \in 1..Len(group) |-> [store_rank |-> i] @@ group[i]]
    IN  concat([g \in 1..Len(keys) |-> ranked(keys[g])])

\* save_flagship_to_db, selection.py:267-300: the table afterwards.
save_flagship_to_db(flagship_df, table) ==
    IF flagship_df = <<>> THEN table
    ELSE LET ranked == ranked_flagship_df_of(flagship_df)
         IN  {[source_store_name |-> ranked[i].source_store_name,
               store_rank |-> ranked[i].store_rank,
               product_url |-> ranked[i].product_url, title |-> ranked[i].title,
               final_score |-> ranked[i].final_score,
               source_platform |-> ranked[i].source_platform] : i \in 1..Len(ranked)}

index_of(series) == [i \in 1..Len(series) |-> series[i].source_store_name]
value_at(series, key) ==
    IF \E i \in 1..Len(series) : series[i].source_store_name = key
    THEN (CHOOSE e \in {series[i] : i \in 1..Len(series)} : e.source_store_name = key).value
    ELSE NaN

\* rankings_df, selection.py:307-317: the two Series side by side (in their
\* order when they agree on it, else by store name), then the left merge.
rankings_df_of(avg_scores_series, max_scores_series, platform_map) ==
    LET both == index_of(avg_scores_series) \o index_of(max_scores_series)
        index == IF index_of(avg_scores_series) = index_of(max_scores_series)
                 THEN index_of(avg_scores_series)
                 ELSE Pick(StoreOrder, {i \in 1..Len(StoreOrder) :
                                          \E j \in 1..Len(both) : both[j] = StoreOrder[i]})
        platform(key) ==
            IF \E i \in 1..Len(platform_map) : platform_map[i].source_store_name = key
            THEN (CHOOSE e \in {platform_map[i] : i \in 1..Len(platform_map)} :
                     e.source_store_name = key).source_platform
            ELSE "Unknown"
    IN  [i \in 1..Len(index) |->
            [source_store_name |-> index[i],
             avg_product_score |-> value_at(avg_scores_series, index[i]),
             max_product_score |-> value_at(max_scores_series, index[i]),
             source_platform |-> platform(index[i])]]

\* save_store_rankings_to_db, selection.py:302-330: the table afterwards.
save_store_rankings_to_db(avg_scores_series, max_scores_series, platform_map, table) ==
    IF avg_scores_series = <<>> /\ max_scores_series = <<>> THEN table
    ELSE LET rankings_df == rankings_df_of(avg_scores_series, max_scores_series, platform_map)
         IN  {rankings_df[i] : i \in 1..Len(rankings_df)}

\* ------------------------------------------------------------------- state
VARIABLES
    pc,                  \* where __main__ stands
    run,                 \* the number of this execution of __main__
    tun,                 \* the tunables the run is given, once it uses them
    quicksort_ties,      \* what the build's default sort does with equal keys,
                         \* once the run sorts
    products,            \* the Shopify source table
    barefoot_products,   \* the WooCommerce source table
    conn_analysis,       \* whether db_connect gave a connection to the analysis db
    df_shopify_raw, df_woocommerce_raw, combined_df,
    top_k_df, flagship_df_display, avg_scores, max_scores,
    db,                  \* the four tables of product_analysis_db, as committed
    txn,                 \* the four tables as the open transaction of
                         \* conn_analysis sees them
    db_before,           \* db when this execution of __main__ began
    failed_sources,      \* the platforms whose fetch raised or had no connection
    batch_size,          \* the batch_size save_scored_products_to_db was given
    failed_batches,      \* the numbers of its batches that raised
    failed_views,        \* the view tables whose bulk insert raised
    halted,              \* the halt message printed, "" if none
    crawl_pc,            \* where get_all_product_links_for_category stands
    start_category_url, current_page_url, pages_scraped, all_links_for_category,
    attempt,             \* the attempts fetch_page_with_retries has made (its i)
    response,            \* what fetch_page_with_retries returned (r)
    pages_fetched        \* the calls of get_product_links_from_category_page

vars == <<pc, run, tun, quicksort_ties, products, barefoot_products, conn_analysis,
          df_shopify_raw, df_woocommerce_raw, combined_df, top_k_df,
          flagship_df_display, avg_scores, max_scores, db, txn, db_before,
          failed_sources, batch_size, failed_batches, failed_views, halted,
          crawl_pc, start_category_url, current_page_url, pages_scraped,
          all_links_for_category, attempt, response, pages_fetched>>

crawl == <<crawl_pc, start_category_url, current_page_url, pages_scraped,
           all_links_for_category, attempt, response, pages_fetched>>

tables == <<products, barefoot_products>>
inputs == <<run, tun, quicksort_ties, products, barefoot_products, conn_analysis,
            db_before>>
faults == <<failed_sources, batch_size, failed_batches, failed_views>>
stored == <<db, txn>>

NoTunables == [k |-> 0, n |-> 0, w_availability |-> NaN, w_price |-> NaN]
views == <<top_k_df, flagship_df_display, avg_scores, max_scores>>

\* The state __main__ starts in, whatever the source tables hold.
MainStart ==
    /\ pc = "fetch_shopify"
    /\ run = 1
    /\ tun = NoTunables
    /\ quicksort_ties = "unknown"
    /\ df_shopify_raw = <<>>
    /\ df_woocommerce_raw = <<>>
    /\ combined_df = <<>>
    /\ top_k_df = <<>>
    /\ flagship_df_display = <<>>
    /\ avg_scores = <<>>
    /\ max_scores = <<>>
    /\ db = EarlierDb
    /\ txn = EarlierDb
    /\ db_before = EarlierDb
    /\ failed_sources = {}
    /\ batch_size = DB_BATCH_SIZE
    /\ failed_batches = {}
    /\ failed_views = {}
    /\ halted = ""

\* fetch_page_with_retries gave up: its return value None.
NoResponse == [ok |-> FALSE, hrefs |-> <<>>, next_href |-> None]

\* The scraper of Etape1 is not running.
CrawlIdle ==
    /\ crawl_pc = "idle"
    /\ start_category_url = None
    /\ current_page_url = None
    /\ pages_scraped = 0
    /\ all_links_for_category = <<>>
    /\ attempt = 0
    /\ response = NoResponse
    /\ pages_fetched = 0

\* __main__ of selection.py starts while no scrape is under way.
Start == MainStart /\ CrawlIdle

Init ==
    /\ Start
    /\ products \in ShopifyTables
    /\ barefoot_products \in WooTables(products)
    /\ conn_analysis = TRUE

\* selection.py:365
FetchShopify ==
    /\ pc = "fetch_shopify"
    /\ df_shopify_raw' = fetch_shopify_data(products)
    /\ pc' = "fetch_woocommerce"
    /\ UNCHANGED <<crawl, inputs, df_woocommerce_raw, combined_df, views, stored, faults, halted>>

\* selection.py:366
FetchWooCommerce ==
    /\ pc = "fetch_woocommerce"
    /\ df_woocommerce_raw' = fetch_woocommerce_data(barefoot_products)
    /\ pc' = "combine"
    /\ UNCHANGED <<crawl, inputs, df_shopify_raw, combined_df, views, stored, faults, halted>>

\* selection.py:375-397, 417-418
Combine ==
    /\ pc = "combine"
    /\ LET df_s_list == df_s_list_of(df_shopify_raw, df_woocommerce_raw)
       IN  IF df_s_list = <<>>
           THEN /\ combined_df' = <<>>
                /\ halted' = "No data fetched from any database."
                /\ pc' = "close"
           ELSE /\ combined_df' = combine(df_s_list)
                /\ halted' = IF combined_df' = <<>>
                             THEN "Combined DataFrame empty after initial combination/deduplication."
                             ELSE ""
                /\ pc' = IF combined_df' = <<>> THEN "close" ELSE "preprocess"
    /\ UNCHANGED <<crawl, inputs, df_shopify_raw, df_woocommerce_raw, views, stored, faults>>

\* selection.py:398-399, 416
Preprocess ==
    /\ pc = "preprocess"
    /\ combined_df' = preprocess_combined_data(combined_df)
    /\ halted' = IF combined_df' = <<>>
                 THEN "Combined DataFrame empty after preprocessing." ELSE ""
    /\ pc' = IF combined_df' = <<>> THEN "close" ELSE "score"
    /\ UNCHANGED <<crawl, inputs, df_shopify_raw, df_woocommerce_raw, views, stored, faults>>

\* selection.py:400: the weights are the module's constants, the same in every
\* execution.
Score ==
    /\ pc = "score"
    /\ tun' \in IF tun = NoTunables THEN Tunables ELSE {tun}
    /\ combined_df' = calculate_attractiveness_score(combined_df, tun'.w_availability,
                                                     tun'.w_price)
    /\ pc' = "top_k"
    /\ UNCHANGED <<crawl, run, quicksort_ties, tables, conn_analysis, db_before,
                   df_shopify_raw, df_woocommerce_raw, views, stored, faults, halted>>

\* selection.py:402: the build's sort treats equal keys the same way every time.
TopK ==
    /\ pc = "top_k"
    /\ quicksort_ties' \in IF quicksort_ties = "unknown" THEN TieOrders
                           ELSE {quicksort_ties}
    /\ top_k_df' = display_top_k_products(combined_df, tun.k, quicksort_ties')
    /\ pc' = "flagship"
    /\ UNCHANGED <<crawl, run, tun, tables, conn_analysis, db_before, df_shopify_raw,
                   df_woocommerce_raw, combined_df, flagship_df_display, avg_scores,
                   max_scores, stored, faults, halted>>

\* selection.py:403
Flagship ==
    /\ pc = "flagship"
    /\ flagship_df_display' =
           display_flagship_products_per_store(combined_df, tun.n, quicksort_ties)
    /\ pc' = "store_rankings"
    /\ UNCHANGED <<crawl, inputs, df_shopify_raw, df_woocommerce_raw, combined_df,
                   top_k_df, avg_scores, max_scores, stored, faults, halted>>

\* selection.py:404
StoreRankings ==
    /\ pc = "store_rankings"
    /\ avg_scores' = display_store_rankings(combined_df, quicksort_ties)[1]
    /\ max_scores' = display_store_rankings(combined_df, quicksort_ties)[2]
    /\ pc' = "save_scored"
    /\ UNCHANGED <<crawl, inputs, df_shopify_raw, df_woocommerce_raw, combined_df,
                   top_k_df, flagship_df_display, stored, faults, halted>>

\* selection.py:406-407: without a connection the four writers are skipped;
\* with one, save_scored_products_to_db commits batch by batch, the batches in
\* failing raising.
SaveScoredWith(size, failing) ==
    /\ pc = "save_scored"
    /\ IF conn_analysis
       THEN /\ db' = [db EXCEPT !.scored_products =
                          save_scored_products_to_db(combined_df, @, size, failing)]
            /\ txn' = db'
            /\ batch_size' = size
            /\ failed_batches' = failing
            /\ pc' = "save_top_k"
       ELSE /\ pc' = "close"
            /\ UNCHANGED <<stored, batch_size, failed_batches>>
    /\ UNCHANGED <<crawl, inputs, df_shopify_raw, df_woocommerce_raw, combined_df, views,
                   failed_sources, failed_views, halted>>

\* selection.py:407, no batch failing.
SaveScored == SaveScoredWith(DB_BATCH_SIZE, {})

\* selection.py:408: DELETE, executemany and commit in the open transaction;
\* nothing at all for an empty frame.
SaveTopK ==
    /\ pc = "save_top_k"
    /\ txn' = [txn EXCEPT !.top_k_products_overall = save_top_k_to_db(top_k_df, @)]
    /\ db' = IF top_k_df = <<>> THEN db ELSE txn'
    /\ pc' = "save_flagship"
    /\ UNCHANGED <<crawl, inputs, df_shopify_raw, df_woocommerce_raw, combined_df, views, faults,
                   halted>>

\* selection.py:409
SaveFlagship ==
    /\ pc = "save_flagship"
    /\ txn' = [txn EXCEPT !.flagship_products_by_store =
                   save_flagship_to_db(flagship_df_display, @)]
    /\ db' = IF flagship_df_display = <<>> THEN db ELSE txn'
    /\ pc' = "save_store_rankings"
    /\ UNCHANGED <<crawl, inputs, df_shopify_raw, df_woocommerce_raw, combined_df, views, faults,
                   halted>>

\* selection.py:411-415
SaveStoreRankings ==
    /\ pc = "save_store_rankings"
    /\ txn' = [txn EXCEPT !.store_rankings =
                   save_store_rankings_to_db(avg_scores, max_scores,
                                             platform_map_df_of(combined_df), @)]
    /\ db' = IF avg_scores = <<>> /\ max_scores = <<>> THEN db ELSE txn'
    /\ pc' = "close"
    /\ UNCHANGED <<crawl, inputs, df_shopify_raw, df_woocommerce_raw, combined_df, views, faults,
                   halted>>

\* selection.py:420-423: closing the connection ends its open transaction
\* without committing it.
Close ==
    /\ pc = "close"
    /\ txn' = db
    /\ pc' = "done"
    /\ UNCHANGED <<crawl, inputs, df_shopify_raw, df_woocommerce_raw, combined_df, views, db,
                   faults, halted>>

Next ==
    \/ FetchShopify
    \/ FetchWooCommerce
    \/ Combine
    \/ Preprocess
    \/ Score
    \/ TopK
    \/ Flagship
    \/ StoreRankings
    \/ SaveScored
    \/ SaveTopK
    \/ SaveFlagship
    \/ SaveStoreRankings
    \/ Close

Spec == Init /\ [][Next]_vars

\* A second execution of calculate_attractiveness_score on the batch just scored,
\* with the same weights; the run ends there.
Rescore ==
    /\ pc = "top_k"
    /\ combined_df' = calculate_attractiveness_score(combined_df, tun.w_availability,
                                                     tun.w_price)
    /\ pc' = "rescored"
    /\ UNCHANGED <<crawl, inputs, df_shopify_raw, df_woocommerce_raw, views, stored, faults,
                   halted>>

NextRescore == Next \/ Rescore

SpecRescore == Init /\ [][NextRescore]_vars

\* ------------------------------------------------------------ repeated runs
\* The `products` tables of the repeated runs: those whose products are all
\* available.
RerunShopifyTables ==
    {t \in ShopifyTables : \A i \in 1..Len(t) : t[i].availability = "Available"}

InitRerun ==
    /\ Start
    /\ products \in RerunShopifyTables
    /\ barefoot_products \in WooTables(products)
    /\ conn_analysis = TRUE

\* __main__ executed a second time, selection.py:358-423: the source tables,
\* the constants and the build are those of the first execution, the analysis
\* database is as the first execution left it.
Rerun ==
    /\ pc = "done"
    /\ run = 1
    /\ run' = 2
    /\ db_before' = db
    /\ pc' = "fetch_shopify"
    /\ df_shopify_raw' = <<>>
    /\ df_woocommerce_raw' = <<>>
    /\ combined_df' = <<>>
    /\ top_k_df' = <<>>
    /\ flagship_df_display' = <<>>
    /\ avg_scores' = <<>>
    /\ max_scores' = <<>>
    /\ failed_sources' = {}
    /\ batch_size' = DB_BATCH_SIZE
    /\ failed_batches' = {}
    /\ failed_views' = {}
    /\ halted' = ""
    /\ UNCHANGED <<crawl, tun, quicksort_ties, tables, conn_analysis, stored>>

NextRerun == Next \/ Rerun

SpecRerun == InitRerun /\ [][NextRerun]_vars

\* --------------------------------------------------------------- failures
\* The `products` tables of the runs with failures: those whose products are
\* all available and of "Store A".
FaultShopifyTables ==
    {t \in ShopifyTables :
        \A i \in 1..Len(t) : t[i].availability = "Available" /\ t[i].store_name = "Store A"}

\* fetch_shopify_data, selection.py:53-65, with no connection (line 55) or with
\* read_sql raising (line 64): the empty frame.
FetchShopifyFails ==
    /\ pc = "fetch_shopify"
    /\ df_shopify_raw' = <<>>
    /\ failed_sources' = failed_sources \cup {"Shopify"}
    /\ pc' = "fetch_woocommerce"
    /\ UNCHANGED <<crawl, inputs, df_woocommerce_raw, combined_df, views, stored, batch_size,
                   failed_batches, failed_views, halted>>

\* fetch_woocommerce_data, selection.py:67-81, with no connection (line 69) or
\* with read_sql raising (line 80): the empty frame.
FetchWooCommerceFails ==
    /\ pc = "fetch_woocommerce"
    /\ df_woocommerce_raw' = <<>>
    /\ failed_sources' = failed_sources \cup {"WooCommerce"}
    /\ pc' = "combine"
    /\ UNCHANGED <<crawl, inputs, df_shopify_raw, combined_df, views, stored, batch_size,
                   failed_batches, failed_views, halted>>

\* db_connect may have returned None for the analysis database (selection.py:361).
InitSourceFaults ==
    /\ Start
    /\ products \in FaultShopifyTables
    /\ barefoot_products \in WooTables(products)
    /\ conn_analysis \in BOOLEAN

NextSourceFaults == Next \/ FetchShopifyFails \/ FetchWooCommerceFails

SpecSourceFaults == InitSourceFaults /\ [][NextSourceFaults]_vars

InitFaults ==
    /\ Start
    /\ products \in FaultShopifyTables
    /\ barefoot_products \in WooTables(products)
    /\ conn_analysis = TRUE

\* The batch sizes save_scored_products_to_db is called with: its default and
\* two that split the modelled batches.
BatchSizes == {DB_BATCH_SIZE, 1, 2}

\* selection.py:407 with any batch size, any of the batches raising
\* (selection.py:240-244) or skipped for want of a connection (line 234).
SaveScoredFaulty ==
    \E size \in BatchSizes :
        \E failing \in SUBSET (1..batch_count(Len(combined_df), size)) :
            SaveScoredWith(size, failing)

NextChunkFaults == Next \/ SaveScoredFaulty

SpecChunkFaults == InitFaults /\ [][NextChunkFaults]_vars

\* save_top_k_to_db, selection.py:254-265, executemany raising after the DELETE:
\* the error is printed, the DELETE stays in the open transaction.
SaveTopKFails ==
    /\ pc = "save_top_k"
    /\ top_k_df # <<>>
    /\ txn' = [txn EXCEPT !.top_k_products_overall = {}]
    /\ failed_views' = failed_views \cup {"top_k_products_overall"}
    /\ pc' = "save_flagship"
    /\ UNCHANGED <<crawl, inputs, df_shopify_raw, df_woocommerce_raw, combined_df, views, db,
                   failed_sources, batch_size, failed_batches, halted>>

\* save_flagship_to_db, selection.py:271-300, executemany raising after the DELETE.
SaveFlagshipFails ==
    /\ pc = "save_flagship"
    /\ flagship_df_display # <<>>
    /\ txn' = [txn EXCEPT !.flagship_products_by_store = {}]
    /\ failed_views' = failed_views \cup {"flagship_products_by_store"}
    /\ pc' = "save_store_rankings"
    /\ UNCHANGED <<crawl, inputs, df_shopify_raw, df_woocommerce_raw, combined_df, views, db,
                   failed_sources, batch_size, failed_batches, halted>>

\* save_store_rankings_to_db, selection.py:319-330, executemany raising after
\* the DELETE.
SaveStoreRankingsFails ==
    /\ pc = "save_store_rankings"
    /\ ~(avg_scores = <<>> /\ max_scores = <<>>)
    /\ txn' = [txn EXCEPT !.store_rankings = {}]
    /\ failed_views' = failed_views \cup {"store_rankings"}
    /\ pc' = "close"
    /\ UNCHANGED <<crawl, inputs, df_shopify_raw, df_woocommerce_raw, combined_df, views, db,
                   failed_sources, batch_size, failed_batches, halted>>

NextViewFaults == Next \/ SaveTopKFails \/ SaveFlagshipFails \/ SaveStoreRankingsFails

SpecViewFaults == InitFaults /\ [][NextViewFaults]_vars

\* ----------------------------------------------------------------- claims
Indices(df) == 1..Len(df)
PricesOf(df) == {df[i].price : i \in Indices(df)}

\* The run has scored its batch: combined_df is the scored set.
Scored ==
    \/ pc \in {"top_k", "flagship", "store_rankings", "save_scored", "save_top_k",
               "save_flagship", "save_store_rankings"}
    \/ pc \in {"close", "done"} /\ halted = ""
TopKDerived == Scored /\ pc # "top_k"
FlagshipSaved == Scored /\ pc \in {"save_store_rankings", "close", "done"}
RankingsSaved == Scored /\ pc \in {"close", "done"}

SourceUrls(tbl) == {tbl[i].product_url : i \in Indices(tbl)}
SourceRow(tbl, u) == CHOOSE r \in {tbl[i] : i \in Indices(tbl)} : r.product_url = u

\* C1: after the two record sets are concatenated (Shopify first) and
\* deduplicated, every product_url of a source appears in exactly one row, no
\* other url appears, and a url both sources hold survives as the Shopify row.
C1_DedupFirstSourceWins ==
    pc = "preprocess" =>
        /\ \A u \in SourceUrls(products) \cup SourceUrls(barefoot_products) :
              Cardinality({i \in Indices(combined_df) : combined_df[i].product_url = u}) = 1
        /\ \A i \in Indices(combined_df) :
              combined_df[i].product_url
                  \in SourceUrls(products) \cup SourceUrls(barefoot_products)
        /\ \A i \in Indices(combined_df) :
              combined_df[i].product_url \in SourceUrls(products) =>
                  LET r == SourceRow(products, combined_df[i].product_url)
                  IN  /\ combined_df[i].source_platform = "Shopify"
                      /\ combined_df[i].price = r.price
                      /\ combined_df[i].availability = r.availability
                      /\ combined_df[i].source_store_name = r.store_name
                      /\ combined_df[i].vendor = r.vendor
        /\ \A i \in Indices(combined_df) :
              combined_df[i].product_url \notin SourceUrls(products) =>
                  combined_df[i].source_platform = "WooCommerce"

\* A url held by both sources has gone through the deduplication.
C1_Witness ==
    /\ pc = "preprocess"
    /\ SourceUrls(products) \cap SourceUrls(barefoot_products) # {}
    /\ Len(barefoot_products) >= 2

\* C2: every price_score of a scored batch lies in [0, 1], and when all prices
\* of the batch are equal (a single row included) every price_score is 1/2.
C2_PriceScoreBounds ==
    Scored =>
        /\ \A i \in Indices(combined_df) :
              /\ RLe(Rat(0, 1), combined_df[i].price_score)
              /\ RLe(combined_df[i].price_score, Rat(1, 1))
        /\ Cardinality(PricesOf(combined_df)) = 1 =>
              \A i \in Indices(combined_df) : combined_df[i].price_score = <<1, 2>>

\* A batch of several rows, all of one price, has been scored.
C2_Witness ==
    /\ Scored
    /\ Len(combined_df) >= 2
    /\ Cardinality(PricesOf(combined_df)) = 1

\* C3: with at least two distinct prices in the batch, price_score * (max - min)
\* = max - price for the batch's min and max, so a cheapest row scores 1, a most
\* expensive row 0, and a cheaper row never scores below a more expensive one.
C3_MinMaxInverted ==
    Scored /\ Cardinality(PricesOf(combined_df)) >= 2 =>
        \E lo, hi \in PricesOf(combined_df) :
            /\ \A p \in PricesOf(combined_df) : RLe(lo, p) /\ RLe(p, hi)
            /\ \A i \in Indices(combined_df) :
                  LET r == combined_df[i]
                  IN  /\ RMul(r.price_score, RSub(hi, lo)) = RSub(hi, r.price)
                      /\ r.price = lo => r.price_score = <<1, 1>>
                      /\ r.price = hi => r.price_score = <<0, 1>>
            /\ \A i, j \in Indices(combined_df) :
                  RLt(combined_df[i].price, combined_df[j].price) =>
                      RLt(combined_df[j].price_score, combined_df[i].price_score)

\* Three distinct prices: one row scores strictly between 0 and 1.
C3_Witness ==
    /\ Scored
    /\ Cardinality(PricesOf(combined_df)) >= 3
    /\ \E i \in Indices(combined_df) :
          /\ RLt(Rat(0, 1), combined_df[i].price_score)
          /\ RLt(combined_df[i].price_score, Rat(1, 1))

\* The batch {A: price 10, available; B: price 30, unavailable}.
ScenarioAB ==
    /\ Len(combined_df) = 2
    /\ combined_df[1].price = <<10, 1>> /\ combined_df[1].availability = "Available"
    /\ combined_df[2].price = <<30, 1>> /\ combined_df[2].availability = "Out of Stock"

\* C4: final_score = w_avail * availability_score + w_price * price_score for
\* every scored row, availability_score being 1 for an available row and 0
\* otherwise; with weights 0.6/0.4 the batch {A, B} gets 1 and 0.
C4_FinalScoreWeightedSum ==
    Scored =>
        /\ \A i \in Indices(combined_df) :
              LET r == combined_df[i]
              IN  /\ r.availability_score = IF r.availability = "Available" THEN 1 ELSE 0
                  /\ r.final_score =
                         Rat(tun.w_availability[1] * r.availability_score
                                 * tun.w_price[2] * r.price_score[2]
                               + tun.w_price[1] * r.price_score[1] * tun.w_availability[2],
                             tun.w_availability[2] * tun.w_price[2] * r.price_score[2])
        /\ (ScenarioAB /\ tun.w_availability = <<3, 5>> /\ tun.w_price = <<2, 5>>) =>
              /\ combined_df[1].final_score = <<1, 1>>
              /\ combined_df[2].final_score = <<0, 1>>

\* The batch {A, B} has been scored with the weights 0.6 and 0.4.
C4_Witness ==
    Scored /\ ScenarioAB /\ tun.w_availability = <<3, 5>> /\ tun.w_price = <<2, 5>>

ScoresOf(df) ==
    [i \in Indices(df) |->
        <<df[i].product_url, df[i].availability_score, df[i].price_score, df[i].final_score>>]

\* C5: scoring is deterministic and idempotent: executing
\* calculate_attractiveness_score again on the scored batch, with the same
\* weights, yields the same availability_score, price_score and final_score for
\* every row as the first execution.
C5_RescoreSameScores ==
    [][Rescore => ScoresOf(combined_df') = ScoresOf(combined_df)]_vars

\* A batch with several prices and both availabilities has been scored twice.
C5_Witness ==
    /\ pc = "rescored"
    /\ Cardinality(PricesOf(combined_df)) >= 2
    /\ \E i, j \in Indices(combined_df) :
          combined_df[i].availability_score # combined_df[j].availability_score

IdxOf(df) == {df[i].idx : i \in Indices(df)}

\* C6: the top-K view has min(k, size of the scored set) rows of the scored set,
\* no row twice, in descending final_score, and no row left out scores strictly
\* higher than a row taken in; a k above the size returns every row.
C6_TopKSizeAndOrder ==
    TopKDerived =>
        /\ Len(top_k_df) = Min2(tun.k, Len(combined_df))
        /\ \A i \in Indices(top_k_df) : \E j \in Indices(combined_df) :
              top_k_df[i] = combined_df[j]
        /\ Cardinality(IdxOf(top_k_df)) = Len(top_k_df)
        /\ \A i, j \in Indices(top_k_df) :
              i < j => RLe(top_k_df[j].final_score, top_k_df[i].final_score)
        /\ \A j \in Indices(combined_df) :
              combined_df[j].idx \notin IdxOf(top_k_df) =>
                  \A i \in Indices(top_k_df) :
                      RLe(combined_df[j].final_score, top_k_df[i].final_score)
        /\ tun.k >= Len(combined_df) => IdxOf(top_k_df) = IdxOf(combined_df)

\* K is smaller than the scored set, the scores differ, and the first row of
\* the scored set is not the best one.
C6_Witness ==
    /\ TopKDerived
    /\ tun.k < Len(combined_df)
    /\ \E j \in Indices(combined_df) :
          RLt(combined_df[1].final_score, combined_df[j].final_score)

\* C7: in the top-K view rows of equal final_score keep their input order, so
\* the selected rows and their ranks are determined by the input order.
C7_TiesKeepInputOrder ==
    TopKDerived =>
        /\ \A i, j \in Indices(top_k_df) :
              (i < j /\ top_k_df[i].final_score = top_k_df[j].final_score) =>
                  top_k_df[i].idx < top_k_df[j].idx
        /\ \A j \in Indices(combined_df) :
              combined_df[j].idx \notin IdxOf(top_k_df) =>
                  \A i \in Indices(top_k_df) :
                      top_k_df[i].final_score = combined_df[j].final_score =>
                          top_k_df[i].idx < combined_df[j].idx

StoresOf(df) == {df[i].source_store_name : i \in Indices(df)}
StoreRows(df, store) == {i \in Indices(df) : df[i].source_store_name = store}
FlagshipRows(store) ==
    {t \in db.flagship_products_by_store : t.source_store_name = store}

\* C8: every store of the scored set has exactly min(n, number of its scored
\* products) rows in the flagship table, the table holds no other store, and the
\* store_rank values of a store are 1..count, each once.
C8_FlagshipCountsAndRanks ==
    FlagshipSaved =>
        /\ {t.source_store_name : t \in db.flagship_products_by_store} = StoresOf(combined_df)
        /\ \A store \in StoresOf(combined_df) :
              LET count == Min2(tun.n, Cardinality(StoreRows(combined_df, store)))
              IN  /\ Cardinality(FlagshipRows(store)) = count
                  /\ {t.store_rank : t \in FlagshipRows(store)} = 1..count
                  /\ Cardinality({t.product_url : t \in FlagshipRows(store)}) = count

\* A store with more products than n has its n flagship rows in the table.
C8_Witness ==
    /\ FlagshipSaved
    /\ \E store \in StoresOf(combined_df) :
          /\ Cardinality(StoreRows(combined_df, store)) > tun.n
          /\ Cardinality(FlagshipRows(store)) >= 2

\* C9: the flagship rows of a store are scored products of that store with
\* their final_score, no product of the store left out scores strictly higher
\* than one taken in, and a smaller store_rank never has a lower final_score.
C9_FlagshipTopNByScore ==
    FlagshipSaved =>
        \A t \in db.flagship_products_by_store :
            /\ \E i \in StoreRows(combined_df, t.source_store_name) :
                  /\ combined_df[i].product_url = t.product_url
                  /\ combined_df[i].final_score = t.final_score
            /\ \A i \in StoreRows(combined_df, t.source_store_name) :
                  (\A u \in FlagshipRows(t.source_store_name) :
                       u.product_url # combined_df[i].product_url) =>
                      RLe(combined_df[i].final_score, t.final_score)
            /\ \A u \in FlagshipRows(t.source_store_name) :
                  t.store_rank < u.store_rank => RLe(u.final_score, t.final_score)

\* A store with more products than n whose first product is not its best, and
\* whose flagship rows differ in score.
C9_Witness ==
    /\ FlagshipSaved
    /\ \E store \in StoresOf(combined_df) :
          /\ Cardinality(StoreRows(combined_df, store)) > tun.n
          /\ \E i, j \in StoreRows(combined_df, store) :
                /\ i < j
                /\ RLt(combined_df[i].final_score, combined_df[j].final_score)
          /\ \E t, u \in FlagshipRows(store) : RLt(t.final_score, u.final_score)

RECURSIVE SumScores(_, _)
SumScores(df, S) ==
    IF S = {} THEN Rat(0, 1)
    ELSE LET i == CHOOSE x \in S : TRUE
         IN  RAdd(df[i].final_score, SumScores(df, S \ {i}))

\* C10: the store ranking table has exactly one row for every store of the
\* scored set and no other row; the row holds the mean and the maximum of the
\* store's final_scores and the platform of the first scored row of that store.
C10_StoreRankings ==
    RankingsSaved =>
        /\ {t.source_store_name : t \in db.store_rankings} = StoresOf(combined_df)
        /\ Cardinality(db.store_rankings) = Cardinality(StoresOf(combined_df))
        /\ \A t \in db.store_rankings :
              LET rows == StoreRows(combined_df, t.source_store_name)
                  first == CHOOSE i \in rows : \A j \in rows : i <= j
              IN  /\ RMul(t.avg_product_score, Rat(Cardinality(rows), 1))
                         = SumScores(combined_df, rows)
                  /\ \E i \in rows : combined_df[i].final_score = t.max_product_score
                  /\ \A i \in rows : RLe(combined_df[i].final_score, t.max_product_score)
                  /\ t.source_platform = combined_df[first].source_platform

\* A store name under both platforms, its products differing in score, and a
\* second store.
C10_Witness ==
    /\ RankingsSaved
    /\ Cardinality(StoresOf(combined_df)) = 2
    /\ \E i, j \in Indices(combined_df) :
          /\ i < j
          /\ combined_df[i].source_store_name = combined_df[j].source_store_name
          /\ combined_df[i].source_platform = "Shopify"
          /\ combined_df[j].source_platform = "WooCommerce"
          /\ combined_df[i].final_score # combined_df[j].final_score

UrlsOf(df) == {df[i].product_url : i \in Indices(df)}
UrlsIn(table) == {t.product_url : t \in table}

WrittenFrom(t, df) ==
    \E i \in Indices(df) :
        /\ df[i].product_url = t.product_url
        /\ df[i].title = t.title
        /\ df[i].source_store_name = t.source_store_name
        /\ df[i].source_platform = t.source_platform
        /\ df[i].price = t.price
        /\ df[i].is_available_numeric = t.is_available_numeric
        /\ df[i].availability_score = t.availability_score
        /\ df[i].price_score = t.price_score
        /\ df[i].final_score = t.final_score

ViewTables == {"top_k_products_overall", "flagship_products_by_store", "store_rankings"}

\* C13: after a run that wrote its views, each of top_k_products_overall,
\* flagship_products_by_store and store_rankings holds exactly the rows derived
\* from this run's scored set, one per row of the view: a row an earlier run
\* wrote is there only if this run derived the same row.
C13_ViewsFullyReplaced ==
    (RankingsSaved /\ pc = "done") =>
        /\ Cardinality(db.top_k_products_overall) = Len(top_k_df)
        /\ \A t \in db.top_k_products_overall :
              /\ t.rank_overall \in Indices(top_k_df)
              /\ top_k_df[t.rank_overall].product_url = t.product_url
              /\ top_k_df[t.rank_overall].final_score = t.final_score
              /\ t.product_url \in UrlsOf(combined_df)
        /\ Cardinality(db.flagship_products_by_store) = Len(flagship_df_display)
        /\ \A t \in db.flagship_products_by_store :
              \E i \in Indices(flagship_df_display) :
                  /\ flagship_df_display[i].product_url = t.product_url
                  /\ flagship_df_display[i].source_store_name = t.source_store_name
                  /\ flagship_df_display[i].final_score = t.final_score
        /\ Cardinality(db.store_rankings) = Len(avg_scores)
        /\ \A t \in db.store_rankings :
              /\ t.source_store_name \in StoresOf(combined_df)
              /\ \E i \in Indices(avg_scores) :
                    /\ avg_scores[i].source_store_name = t.source_store_name
                    /\ avg_scores[i].value = t.avg_product_score

\* The run has replaced views that held two rows each by views over another
\* number of products, among them the store "Barefoot Buttons" an earlier run
\* ranked too.
C13_Witness ==
    /\ RankingsSaved
    /\ pc = "done"
    /\ \A v \in ViewTables : Cardinality(db_before[v]) = 2
    /\ Cardinality(db.top_k_products_overall) = 3
    /\ "Barefoot Buttons" \in StoresOf(combined_df)

\* The rows of `barefoot_products` whose price text does not parse.
Unparsable == {j \in Indices(barefoot_products) :
                  isnan(clean_and_convert_price(barefoot_products[j].price))}

\* The rows of a table with a product_url that are WooCommerce rows.
WooRowsOf(table, url) ==
    {t \in table : t.product_url = url /\ t.source_platform = "WooCommerce"}

UrlTables == {"scored_products", "top_k_products_overall", "flagship_products_by_store"}

\* The price cleaning is behind the run.
Cleaned == pc \notin {"fetch_shopify", "fetch_woocommerce", "combine", "preprocess"}

\* C14 as stated: a source row whose price text does not parse is not in the
\* batch that is scored, no price of the batch is unparsed, and none of the
\* four output tables holds a row of it.
C14_UnparsableAbsentEverywhere ==
    Cleaned =>
        \A j \in Unparsable :
            /\ WooRowsOf({combined_df[i] : i \in Indices(combined_df)},
                         barefoot_products[j].product_url) = {}
            /\ \A i \in Indices(combined_df) : ~isnan(combined_df[i].price)
            /\ \A v \in UrlTables : WooRowsOf(db[v], barefoot_products[j].product_url) = {}
            /\ \A t \in db.store_rankings :
                  t \in db_before.store_rankings
                      \/ t.source_store_name \in StoresOf(combined_df)

\* C14 as amended: a source row whose price text does not parse is not in the
\* batch that is scored, no price of the batch is unparsed, and the run writes
\* no row of it to any of the four output tables: a row a table holds for it is
\* a row the table held before the run.
C14_UnparsableNeverWritten ==
    Cleaned =>
        \A j \in Unparsable :
            /\ WooRowsOf({combined_df[i] : i \in Indices(combined_df)},
                         barefoot_products[j].product_url) = {}
            /\ \A i \in Indices(combined_df) : ~isnan(combined_df[i].price)
            /\ \A v \in UrlTables :
                  WooRowsOf(db[v], barefoot_products[j].product_url) \subseteq db_before[v]
            /\ \A t \in db.store_rankings :
                  t \in db_before.store_rankings
                      \/ t.source_store_name \in StoresOf(combined_df)

\* A run over an unparsable WooCommerce row and two rows of different prices
\* has written its tables; "Barefoot Buttons" has no scored product.
C14_Witness ==
    /\ pc = "done"
    /\ halted = ""
    /\ Unparsable # {}
    /\ Cardinality(PricesOf(combined_df)) = 2
    /\ "Barefoot Buttons" \notin StoresOf(combined_df)
    /\ db.top_k_products_overall # db_before.top_k_products_overall

\* The scored_products rows of the products of the current batch.
PersistedBatch == {t \in db.scored_products : t.product_url \in UrlsOf(combined_df)}

\* C17: in the normalized batch and in the scored_products rows written from
\* it, the text fields the row's source does not provide hold "N/A":
\* description for a WooCommerce row, product_tags and sku for a Shopify row.
C17_AbsentFieldsHoldSentinel ==
    Scored =>
        /\ \A i \in Indices(combined_df) :
              LET r == combined_df[i]
              IN  /\ r.source_platform = "Shopify" =>
                         r.product_tags = "N/A" /\ r.sku = "N/A"
                  /\ r.source_platform = "WooCommerce" => r.description = "N/A"
        /\ pc = "done" =>
              \A t \in PersistedBatch :
                  /\ t.source_platform = "Shopify" =>
                         t.product_tags = "N/A" /\ t.sku = "N/A"
                  /\ t.source_platform = "WooCommerce" => t.description_text = "N/A"

ScoredWritten ==
    /\ Scored
    /\ conn_analysis
    /\ pc \in {"save_top_k", "save_flagship", "save_store_rankings", "close", "done"}

RowsOf(table, url) == {t \in table : t.product_url = url}

\* C15: after save_scored_products_to_db, every row of the batch lies in one
\* batch, every batch holds between 1 and batch_size rows, the rows of a batch
\* that failed are in scored_products as they were before the run (or not at
\* all), the rows of every other batch, before or after a failed one, are
\* there with the run's values, and the rows of other products are untouched.
C15_ChunkFailureIsolated ==
    ScoredWritten =>
        LET count == batch_count(Len(combined_df), batch_size)
        IN  /\ \A p \in Indices(combined_df) :
                  LET url == combined_df[p].product_url
                  IN  /\ batch_of(p, batch_size) \in 1..count
                      /\ IF batch_of(p, batch_size) \in failed_batches
                         THEN RowsOf(db.scored_products, url)
                                  = RowsOf(db_before.scored_products, url)
                         ELSE /\ Cardinality(RowsOf(db.scored_products, url)) = 1
                              /\ \A t \in RowsOf(db.scored_products, url) :
                                    WrittenFrom(t, combined_df)
            /\ \A c \in 1..count :
                  Cardinality({p \in Indices(combined_df) : batch_of(p, batch_size) = c})
                      \in 1..batch_size
            /\ \A t \in db_before.scored_products :
                  t.product_url \notin UrlsOf(combined_df) => t \in db.scored_products

\* Three batches of one row: the first committed, the second failed, the third
\* committed after it; the failed one is of a product the table did not hold.
C15_Witness ==
    /\ ScoredWritten
    /\ pc = "done"
    /\ Len(combined_df) = 3
    /\ batch_size = 1
    /\ failed_batches = {2}
    /\ RowsOf(db.scored_products, combined_df[2].product_url) = {}
    /\ RowsOf(db.scored_products, combined_df[3].product_url) # {}

PlatformRows(df, platform) == {i \in Indices(df) : df[i].source_platform = platform}

\* C16: a source whose fetch failed leaves an empty frame and no row in the
\* batch, and the run goes on with the other source's rows; the run halts with
\* "No data fetched" exactly when both frames are empty, and with the
\* preprocessing message exactly when price cleaning leaves no row; a halted
\* run has a halt message, derives no view, goes on to close, and leaves the
\* four tables as they were before the run, as does a run with no connection
\* to the analysis database.
C16_FailedSourceAndHalt ==
    /\ pc \notin {"fetch_shopify", "fetch_woocommerce"} =>
          /\ "Shopify" \in failed_sources => df_shopify_raw = <<>>
          /\ "WooCommerce" \in failed_sources => df_woocommerce_raw = <<>>
    /\ pc \notin {"fetch_shopify", "fetch_woocommerce", "combine"} =>
          /\ \A platform \in failed_sources : PlatformRows(combined_df, platform) = {}
          /\ (df_shopify_raw = <<>> /\ df_woocommerce_raw = <<>>)
                <=> halted = "No data fetched from any database."
          /\ df_shopify_raw # <<>> =>
                \A i \in Indices(df_shopify_raw) :
                    pc = "preprocess" =>
                        df_shopify_raw[i].product_url \in UrlsOf(combined_df)
          /\ (df_shopify_raw = <<>> /\ pc = "preprocess") =>
                UrlsOf(combined_df) = UrlsOf(df_woocommerce_raw)
    /\ Cleaned =>
          /\ halted = "" <=> combined_df # <<>>
          /\ (halted = "Combined DataFrame empty after preprocessing.") <=>
                (combined_df = <<>> /\ (df_shopify_raw # <<>> \/ df_woocommerce_raw # <<>>))
    /\ halted # "" =>
          /\ pc \in {"close", "done"}
          /\ db = db_before
          /\ top_k_df = <<>> /\ flagship_df_display = <<>>
          /\ avg_scores = <<>> /\ max_scores = <<>>
    /\ ~conn_analysis => db = db_before

\* The Shopify fetch failed although `products` holds rows, and the run has
\* scored and written the WooCommerce rows.
C16_Witness ==
    /\ pc = "done"
    /\ failed_sources = {"Shopify"}
    /\ products # <<>>
    /\ halted = ""
    /\ Len(combined_df) >= 2
    /\ db # db_before

\* What the writer of a view table leaves when all goes well.
Snapshot(v) ==
    CASE v = "top_k_products_overall" -> save_top_k_to_db(top_k_df, {})
      [] v = "flagship_products_by_store" -> save_flagship_to_db(flagship_df_display, {})
      [] v = "store_rankings" ->
             save_store_rankings_to_db(avg_scores, max_scores,
                                       platform_map_df_of(combined_df), {})

\* C18: when the run is over, a view table whose bulk insert failed holds its
\* complete previous snapshot or the complete new one.
C18_ViewWriteAtomic ==
    pc = "done" =>
        \A v \in failed_views : db[v] = db_before[v] \/ db[v] = Snapshot(v)

DefaultWeights ==
    tun.w_availability = WEIGHT_AVAILABILITY /\ tun.w_price = WEIGHT_PRICE

\* No row of df stands above a row that is available while it is not; with
\* same_store, among the rows of one store.
AvailableFirst(df, same_store) ==
    \A i, j \in Indices(df) :
        (/\ i < j
         /\ same_store => df[i].source_store_name = df[j].source_store_name
         /\ df[i].is_available_numeric = 0)
            => df[j].is_available_numeric = 0

\* C21: in a batch scored with the default weights (0.6, 0.4) every
\* final_score lies in [0, 1], every available product has a strictly higher
\* final_score than every unavailable one, and neither the top-K frame nor the
\* flagship rows of a store list an unavailable product above an available one.
C21_AvailabilityDominates ==
    (Scored /\ DefaultWeights) =>
        /\ \A i \in Indices(combined_df) :
              /\ RLe(Rat(0, 1), combined_df[i].final_score)
              /\ RLe(combined_df[i].final_score, Rat(1, 1))
        /\ \A i, j \in Indices(combined_df) :
              (combined_df[i].is_available_numeric = 1
                  /\ combined_df[j].is_available_numeric = 0)
                  => RLt(combined_df[j].final_score, combined_df[i].final_score)
        /\ AvailableFirst(top_k_df, FALSE)
        /\ AvailableFirst(flagship_df_display, TRUE)

\* The cheapest product of the batch is unavailable and the dearest is
\* available, both of one store, and both views list them.
C21_Witness ==
    /\ Scored /\ DefaultWeights /\ pc = "done"
    /\ \E i, j \in Indices(combined_df) :
          /\ combined_df[i].is_available_numeric = 1
          /\ combined_df[i].price_score = Rat(0, 1)
          /\ combined_df[j].is_available_numeric = 0
          /\ combined_df[j].price_score = Rat(1, 1)
          /\ combined_df[i].source_store_name = combined_df[j].source_store_name
          /\ {combined_df[i].product_url, combined_df[j].product_url}
                \subseteq (UrlsOf(top_k_df) \cap UrlsOf(flagship_df_display))

\* ------------------------------------------------- the WooCommerce crawl
\* Scrapping_Woo.py:169
max_pages == 20
\* Scrapping_Woo.py:120, the default every caller uses
retries == 3
\* The most product items one category page shows.
MaxLinksOnPage == 2

Site == "https://barefootbuttons.com"
CategoryUrl == "https://barefootbuttons.com/product-category/version-1/"
Page2Url == "https://barefootbuttons.com/product-category/version-1/page/2/"

\* The href attributes a page may carry: of product items (two of them name the
\* same product) and of its a.next.page-numbers tag (None: no such tag).
ProductHrefs ==
    {"/product/a/", "https://barefootbuttons.com/product/a/", "/product/b/"}
NextHrefs ==
    {None, "/product-category/version-1/", "/product-category/version-1/page/2/",
     Page2Url}
AbsoluteHrefs == {"https://barefootbuttons.com/product/a/", Page2Url}

\* urllib.parse.urljoin on the pages of one site: an absolute href stands, a
\* root-relative one is put behind the scheme and host of the page.
urljoin(page_url, href) == IF href \in AbsoluteHrefs THEN href ELSE Site \o href

\* The category URLs the crawl is started on: the first page of a category or a
\* later page of it.
StartUrls == {CategoryUrl, Page2Url}

\* What a page answers to a successful GET.
Responses ==
    UNION {{[ok |-> TRUE, hrefs |-> h, next_href |-> n] :
               h \in [1..len -> ProductHrefs], n \in NextHrefs}
           : len \in 0..MaxLinksOnPage}

\* Python's truth value of a URL or None.
truthy(url) == url # None /\ url # ""

\* get_product_links_from_category_page, Scrapping_Woo.py:131-164: the links.
links_on_page_of(page_url, resp) ==
    IF ~resp.ok THEN <<>>
    ELSE [k \in 1..Len(resp.hrefs) |-> urljoin(page_url, resp.hrefs[k])]

\* get_product_links_from_category_page: the next page URL, None without one.
next_page_url_of(page_url, resp) ==
    IF ~resp.ok \/ resp.next_href = None THEN None
    ELSE urljoin(page_url, resp.next_href)

\* Collecting without the membership test.
collect_all(all_links, links_on_page) == all_links \o links_on_page

\* Scrapping_Woo.py:177-181: the links not yet collected are appended.
collect(all_links, links_on_page) ==
    LET F[k \in 0..Len(links_on_page)] ==
            IF k = 0 THEN all_links
            ELSE IF \E m \in 1..Len(F[k - 1]) : F[k - 1][m] = links_on_page[k]
                 THEN F[k - 1]
                 ELSE Append(F[k - 1], links_on_page[k])
    IN  F[Len(links_on_page)]

\* Pagination that follows every next link, its own page included.
next_current_page_follow_self(current, candidate) == candidate

\* Scrapping_Woo.py:186-192: the page the loop goes to next, None to stop.
next_current_page(current, candidate) ==
    IF truthy(candidate) /\ candidate # current THEN candidate ELSE None

\* The while condition, Scrapping_Woo.py:172, and the first line of the body.
LoopTest ==
    /\ crawl_pc = "loop"
    /\ IF truthy(current_page_url) /\ pages_scraped < max_pages
       THEN /\ pages_scraped' = pages_scraped + 1
            /\ crawl_pc' = "fetch"
       ELSE /\ pages_scraped' = pages_scraped
            /\ crawl_pc' = "returned"
    /\ attempt' = 0
    /\ response' = NoResponse
    /\ UNCHANGED <<start_category_url, current_page_url, all_links_for_category,
                   pages_fetched>>
    /\ UNCHANGED <<pc, inputs, df_shopify_raw, df_woocommerce_raw, combined_df, views,
                   stored, faults, halted>>

\* fetch_page_with_retries, Scrapping_Woo.py:120-129: an attempt that raises;
\* the last one returns None.
AttemptFails ==
    /\ crawl_pc = "fetch"
    /\ attempt < retries
    /\ attempt' = attempt + 1
    /\ IF attempt < retries - 1
       THEN UNCHANGED <<crawl_pc, response, pages_fetched>>
       ELSE /\ crawl_pc' = "page"
            /\ response' = NoResponse
            /\ pages_fetched' = pages_fetched + 1
    /\ UNCHANGED <<start_category_url, current_page_url, pages_scraped,
                   all_links_for_category>>
    /\ UNCHANGED <<pc, inputs, df_shopify_raw, df_woocommerce_raw, combined_df, views,
                   stored, faults, halted>>

\* fetch_page_with_retries: an attempt that returns the page.
AttemptSucceeds ==
    /\ crawl_pc = "fetch"
    /\ attempt < retries
    /\ attempt' = attempt + 1
    /\ \E resp \in Responses : response' = resp
    /\ crawl_pc' = "page"
    /\ pages_fetched' = pages_fetched + 1
    /\ UNCHANGED <<start_category_url, current_page_url, pages_scraped,
                   all_links_for_category>>
    /\ UNCHANGED <<pc, inputs, df_shopify_raw, df_woocommerce_raw, combined_df, views,
                   stored, faults, halted>>

\* The rest of the loop body, Scrapping_Woo.py:175-192.
CollectPage ==
    /\ crawl_pc = "page"
    /\ all_links_for_category' =
           collect(all_links_for_category, links_on_page_of(current_page_url, response))
    /\ current_page_url' =
           next_current_page(current_page_url,
                             next_page_url_of(current_page_url, response))
    /\ crawl_pc' = "loop"
    /\ UNCHANGED <<start_category_url, pages_scraped, attempt, response, pages_fetched>>
    /\ UNCHANGED <<pc, inputs, df_shopify_raw, df_woocommerce_raw, combined_df, views,
                   stored, faults, halted>>

\* get_all_product_links_for_category is called, before anything is persisted.
InitCrawl ==
    /\ MainStart
    /\ products = <<>>
    /\ barefoot_products = <<>>
    /\ conn_analysis = TRUE
    /\ crawl_pc = "loop"
    /\ start_category_url \in StartUrls
    /\ current_page_url = start_category_url
    /\ pages_scraped = 0
    /\ all_links_for_category = <<>>
    /\ attempt = 0
    /\ response = NoResponse
    /\ pages_fetched = 0

NextCrawl == LoopTest \/ AttemptFails \/ AttemptSucceeds \/ CollectPage

\* The interpreter keeps running the call, and every GET returns or raises
\* within its timeout.
SpecCrawl == InitCrawl /\ [][NextCrawl]_vars /\ WF_vars(NextCrawl)

\* The page just fetched is the last one: the fetch gave up, the page has no
\* next link, or its next link is the page itself.
LastPage ==
    /\ crawl_pc = "page"
    /\ \/ ~response.ok
       \/ response.next_href = None
       \/ urljoin(current_page_url, response.next_href) = current_page_url

CrawlBounded ==
    /\ pages_scraped <= max_pages
    /\ pages_fetched <= pages_scraped
    /\ attempt <= retries
    /\ (crawl_pc = "page" /\ ~response.ok) => attempt = retries
    /\ \A m, n \in 1..Len(all_links_for_category) :
          m # n => all_links_for_category[m] # all_links_for_category[n]

CrawlStops ==
    /\ LastPage => current_page_url' = None
    /\ (crawl_pc = "loop" /\ current_page_url = None) =>
          (crawl_pc' = "returned" /\ pages_fetched' = pages_fetched)
    /\ pages_fetched' # pages_fetched => pages_fetched' = pages_fetched + 1

\* C22: get_all_product_links_for_category returns, whatever the site answers:
\* it fetches at most max_pages (20) pages, a page fetch makes at most
\* `retries` attempts and gives None only after the last of them, no link is
\* collected twice, and after a page without a next link, or whose next link is
\* the page itself, no further page is fetched.
C22_CrawlTerminates ==
    /\ []CrawlBounded
    /\ [][CrawlStops]_vars
    /\ <>(crawl_pc = "returned")

\* The crawl went round a cycle of two pages and was stopped by the page limit,
\* with the two products collected once each.
C22_Witness ==
    /\ crawl_pc = "returned"
    /\ pages_scraped = max_pages
    /\ pages_fetched = max_pages
    /\ truthy(current_page_url)
    /\ Len(all_links_for_category) = 2

====
